---- MODULE Spec2Model ----
(***************************************************************************)
(* Model of the Battlesnake decision engine of src/main.py.                *)
(*                                                                         *)
(* A cell is a record [x, y]; a body is a sequence of cells, head first    *)
(* (Python index i is TLA+ index i+1); a snake is [id, head, body,         *)
(* health]; food is a sequence of cells (the JSON list, order kept).       *)
(*                                                                         *)
(* Scores.  The program computes scores in floating point.  The model      *)
(* computes them exactly, as integers in fixed units:                      *)
(*   - the sub-scores whose values are always whole numbers are returned   *)
(*     as they are;                                                        *)
(*   - evaluate_space_advanced and evaluate_center_control return twice    *)
(*     their value (halves occur); the board centre (width / 2,            *)
(*     height / 2) is likewise carried doubled;                            *)
(*   - calculate_body_spread and evaluate_area_coverage return their value *)
(*     times board_width * board_height (the spread is a ratio over the    *)
(*     board area);                                                        *)
(*   - evaluate_move returns its value times 20 * board_width *            *)
(*     board_height (the weights 0.1, 0.2, 1.5, ... are tenths).           *)
(***************************************************************************)
EXTENDS Integers, Sequences, FiniteSets, TLC

VARIABLES
    board,        \* game_data["board"]: [width, height, food, snakes]
    you,          \* game_data["you"]:   [id, head, body, health]
    pc,           \* position in the handler being executed
    move_scores,  \* move(): dict move -> score, as a function on the scored moves
    chosen_move,  \* move(): the local chosen_move ("" while unset)
    next_move,    \* move(): position of the for loop in possible_moves
    calls,        \* number of evaluate_move calls made by move()
    ret           \* value returned by the function a pure-function run applies

vars == <<board, you, pc, move_scores, chosen_move, next_move, calls, ret>>

----------------------------------------------------------------------------
(* Bounds of the checked input space *)

BoardSize == 3
MaxLen == 5

----------------------------------------------------------------------------
(* Small helpers *)

Abs(n) == IF n < 0 THEN -n ELSE n

Min2(a, b) == IF a < b THEN a ELSE b

Cell(cx, cy) == [x |-> cx, y |-> cy]

\* body[:-1]
AllButLast(body) == SubSeq(body, 1, Len(body) - 1)

Range(s) == {s[i] : i \in 1..Len(s)}

\* mutant: a misspelt token in the list of moves
possible_moves_Misspelt == <<"up", "down", "left", "rigth">>

possible_moves == <<"up", "down", "left", "right">>

Moves == Range(possible_moves)

\* position of a move in possible_moves (dict insertion order of move_scores)
MoveIndex(m) == CHOOSE i \in 1..Len(possible_moves) : possible_moves[i] = m

get_new_head_position(head, move) ==
    CASE move = "up"    -> [head EXCEPT !.y = head.y + 1]
      [] move = "down"  -> [head EXCEPT !.y = head.y - 1]
      [] move = "left"  -> [head EXCEPT !.x = head.x - 1]
      [] move = "right" -> [head EXCEPT !.x = head.x + 1]
      [] OTHER          -> head

InBounds(c, board_width, board_height) ==
    /\ 0 <= c.x /\ c.x < board_width
    /\ 0 <= c.y /\ c.y < board_height

\* the list of in-bounds positions one step from head, in direction order
get_possible_moves(head, board_width, board_height) ==
    LET all == [i \in 1..Len(possible_moves) |->
                    get_new_head_position(head, possible_moves[i])]
    IN  SelectSeq(all, LAMBDA p : InBounds(p, board_width, board_height))

get_distance(point1, point2) ==
    Abs(point1.x - point2.x) + Abs(point1.y - point2.y)

----------------------------------------------------------------------------
(* SafetyFilter *)

\* "if food: for f in food: if new_head == f: is_eating = True"
IsEating(new_head, food) ==
    \E k \in 1..Len(food) : new_head.x = food[k].x /\ new_head.y = food[k].y

\* mutant: the neck check is missing
is_basic_safe_NoNeckCheck(new_head, board_width, board_height, my_body, food) ==
    /\ ~(new_head.x < 0 \/ new_head.x >= board_width)
    /\ ~(new_head.y < 0 \/ new_head.y >= board_height)
    /\ \A i \in 1..Len(my_body) :
          (new_head.x = my_body[i].x /\ new_head.y = my_body[i].y)
              => (i = Len(my_body) /\ ~IsEating(new_head, food))

\* mutant: the tail is always taken to move away, eating or not
is_basic_safe_TailAlwaysFree(new_head, board_width, board_height, my_body, food) ==
    /\ ~(new_head.x < 0 \/ new_head.x >= board_width)
    /\ ~(new_head.y < 0 \/ new_head.y >= board_height)
    /\ (Len(my_body) >= 2 =>
            ~(new_head.x = my_body[2].x /\ new_head.y = my_body[2].y))
    /\ \A i \in 1..Len(my_body) :
          (new_head.x = my_body[i].x /\ new_head.y = my_body[i].y)
              => i = Len(my_body)

is_basic_safe(new_head, board_width, board_height, my_body, food) ==
    /\ ~(new_head.x < 0 \/ new_head.x >= board_width)
    /\ ~(new_head.y < 0 \/ new_head.y >= board_height)
    /\ (Len(my_body) >= 2 =>
            ~(new_head.x = my_body[2].x /\ new_head.y = my_body[2].y))
    \* the loop over enumerate(my_body): every segment equal to new_head must
    \* take the "continue" (last segment and not eating), else return False
    /\ \A i \in 1..Len(my_body) :
          (new_head.x = my_body[i].x /\ new_head.y = my_body[i].y)
              => (i = Len(my_body) /\ ~IsEating(new_head, food))

\* mutant: no opponent is ever taken to be about to eat
IsAboutToEat_Never(opp_head, food) == FALSE

\* "is_about_to_eat": some food at Manhattan distance exactly 1 of the head
IsAboutToEat(opp_head, food) ==
    \E k \in 1..Len(food) :
        Abs(opp_head.x - food[k].x) + Abs(opp_head.y - food[k].y) = 1

check_opponent_bodies(new_head, opponents, food) ==
    \E o \in 1..Len(opponents) :
        LET body == opponents[o].body
            segments_to_check ==
                IF Len(food) > 0 /\ IsAboutToEat(opponents[o].head, food)
                THEN body ELSE AllButLast(body)
        IN  \E s \in 1..Len(segments_to_check) :
                /\ segments_to_check[s].x = new_head.x
                /\ segments_to_check[s].y = new_head.y

----------------------------------------------------------------------------
(* ThreatModel *)

\* mutant: equally long opponents are skipped too
IsSmallerOpponent_OrEqual(opponent_length, my_length) == opponent_length <= my_length

\* "if opponent_length < my_length: continue" of validate_move_against_opponents
IsSmallerOpponent(opponent_length, my_length) == opponent_length < my_length

\* one opponent of validate_move_against_opponents' loop: TRUE when the loop
\* body returns False for it
OpponentCanReach(chosen_head, my_length, opponent, board_width, board_height) ==
    /\ ~IsSmallerOpponent(Len(opponent.body), my_length)
    /\ LET opponent_possible_moves ==
               get_possible_moves(opponent.head, board_width, board_height)
       IN  \E k \in 1..Len(opponent_possible_moves) :
               /\ opponent_possible_moves[k].x = chosen_head.x
               /\ opponent_possible_moves[k].y = chosen_head.y

validate_move_against_opponents(chosen_head, my_length, opponents, board_width, board_height) ==
    IF Len(opponents) = 0 THEN TRUE
    ELSE ~\E o \in 1..Len(opponents) :
             OpponentCanReach(chosen_head, my_length, opponents[o],
                              board_width, board_height)

\* mutant: an equally long opponent counts as beaten
WinsHeadToHead_OrTies(my_length, opponent_length) == my_length >= opponent_length

\* "if my_length > opponent_length" of evaluate_head_to_head
WinsHeadToHead(my_length, opponent_length) == my_length > opponent_length

\* evaluate_head_to_head, as its loops run: opponent o, its possible move k,
\* the score so far; -1000 is returned at the first equal-or-larger contact
RECURSIVE HeadToHeadFrom(_, _, _, _, _, _, _)
HeadToHeadFrom(o, k, score, new_head, my_length, opponents, dims) ==
    IF o > Len(opponents) THEN score
    ELSE LET opponent == opponents[o]
             opponent_length == Len(opponent.body)
             opp_possible_moves ==
                 get_possible_moves(opponent.head, dims[1], dims[2])
         IN  IF k <= Len(opp_possible_moves)
             THEN IF /\ new_head.x = opp_possible_moves[k].x
                     /\ new_head.y = opp_possible_moves[k].y
                  THEN IF WinsHeadToHead(my_length, opponent_length)
                       THEN HeadToHeadFrom(o, k + 1, score + 50, new_head,
                                           my_length, opponents, dims)
                       ELSE -1000
                  ELSE HeadToHeadFrom(o, k + 1, score, new_head,
                                      my_length, opponents, dims)
             ELSE LET distance_to_opp == get_distance(new_head, opponent.head)
                      bonus == IF my_length > opponent_length /\ distance_to_opp < 3
                               THEN (3 - distance_to_opp) * 10 ELSE 0
                  IN  HeadToHeadFrom(o + 1, 1, score + bonus, new_head,
                                     my_length, opponents, dims)

evaluate_head_to_head(new_head, my_length, opponents, board_width, board_height) ==
    HeadToHeadFrom(1, 1, 0, new_head, my_length, opponents,
                   <<board_width, board_height>>)

----------------------------------------------------------------------------
(* Bounded breadth-first flood fill (the three copies in the source share   *)
(* this loop; they differ in the depth bound and in what counts as occupied) *)

\* mutant: pop() instead of popleft(), a depth-first fill
QueuePop_Right(queue) == Len(queue)

\* deque.popleft(): index of the queue entry taken next
QueuePop(queue) == 1

\* "occupied" of evaluate_space / evaluate_space_advanced: body[:-1] of self
\* and of every opponent
OccupiedCells(my_body, opponents) ==
    Range(AllButLast(my_body))
        \cup UNION {Range(AllButLast(opponents[o].body)) : o \in 1..Len(opponents)}

\* mutant: own_body is not looked at
OccupiedCellsExcluding_OthersOnly(own_body, opponents, exclude_length) ==
    UNION {IF Len(opponents[o].body) = exclude_length THEN {}
           ELSE Range(AllButLast(opponents[o].body)) : o \in 1..Len(opponents)}

\* "occupied" of count_reachable_space: own_body[:-1] and body[:-1] of every
\* opponent whose length differs from exclude_length
OccupiedCellsExcluding(own_body, opponents, exclude_length) ==
    Range(AllButLast(own_body))
        \cup UNION {IF Len(opponents[o].body) = exclude_length THEN {}
                    ELSE Range(AllButLast(opponents[o].body)) : o \in 1..Len(opponents)}

\* One iteration of the while loop on the state [queue, visited, counted]:
\* queue holds <<cell, depth>> entries, counted the entries accepted so far
\* (each with the depth at which it was counted).  An empty queue is left as
\* it is.
FloodStep(st, occupied, dims, max_check) ==
    IF Len(st.queue) = 0 THEN st
    ELSE LET p == QueuePop(st.queue)
             entry == st.queue[p]
             c == entry[1]
             depth == entry[2]
             rest == SubSeq(st.queue, 1, p - 1) \o SubSeq(st.queue, p + 1, Len(st.queue))
         IN  IF \/ depth >= max_check
                \/ c \in st.visited
                \/ ~InBounds(c, dims[1], dims[2])
                \/ c \in occupied
             THEN [queue |-> rest, visited |-> st.visited, counted |-> st.counted]
             ELSE [queue |-> rest \o << <<Cell(c.x + 1, c.y), depth + 1>>,
                                        <<Cell(c.x - 1, c.y), depth + 1>>,
                                        <<Cell(c.x, c.y + 1), depth + 1>>,
                                        <<Cell(c.x, c.y - 1), depth + 1>> >>,
                   visited |-> st.visited \cup {c},
                   counted |-> st.counted \cup {entry}]

\* four and sixteen iterations in a row (the loop is run in blocks, which
\* keeps the evaluation of long queues shallow)
FloodStep4(st, occupied, dims, max_check) ==
    FloodStep(FloodStep(FloodStep(FloodStep(st, occupied, dims, max_check),
        occupied, dims, max_check), occupied, dims, max_check),
        occupied, dims, max_check)

FloodStep16(st, occupied, dims, max_check) ==
    FloodStep4(FloodStep4(FloodStep4(FloodStep4(st, occupied, dims, max_check),
        occupied, dims, max_check), occupied, dims, max_check),
        occupied, dims, max_check)

\* "while queue": iterate until the queue is empty
RECURSIVE FloodLoop(_, _, _, _)
FloodLoop(st, occupied, dims, max_check) ==
    IF Len(st.queue) = 0 THEN st.counted
    ELSE FloodLoop(FloodStep16(st, occupied, dims, max_check),
                   occupied, dims, max_check)

FloodFill(start, occupied, board_width, board_height, max_check) ==
    FloodLoop([queue |-> << <<start, 0>> >>, visited |-> {}, counted |-> {}],
              occupied, <<board_width, board_height>>, max_check)

count_reachable_space(start_pos, own_body, opponents, board_width, board_height, exclude_length) ==
    Cardinality(FloodFill(start_pos,
                          OccupiedCellsExcluding(own_body, opponents, exclude_length),
                          board_width, board_height, 6))

evaluate_space(new_head, my_body, opponents, board_width, board_height) ==
    Cardinality(FloodFill(new_head, OccupiedCells(my_body, opponents),
                          board_width, board_height, 4)) * 2

\* the four neighbours of new_head that are in bounds and not occupied
OpenDirections(new_head, my_body, opponents, board_width, board_height) ==
    Cardinality({d \in {<<0, 1>>, <<0, -1>>, <<1, 0>>, <<-1, 0>>} :
        LET check == Cell(new_head.x + d[1], new_head.y + d[2])
        IN  /\ InBounds(check, board_width, board_height)
            /\ check \notin OccupiedCells(my_body, opponents)})

\* the while loop of evaluate_space_advanced: the cells it counts, each with
\* its depth
AdvancedFill(new_head, my_body, opponents, board_width, board_height) ==
    FloodFill(new_head, OccupiedCells(my_body, opponents),
              board_width, board_height, 7)

\* mutant: counted cells and open directions are subtracted, not added
evaluate_space_advanced_SpaceAsCost(new_head, my_body, opponents, board_width, board_height) ==
    LET counted == AdvancedFill(new_head, my_body, opponents,
                                board_width, board_height)
        immediate_space == Cardinality({e \in counted : e[2] < 3})
        extended_space == Cardinality({e \in counted : ~(e[2] < 3)})
        open_directions ==
            OpenDirections(new_head, my_body, opponents, board_width, board_height)
    IN  0 - immediate_space * 8 - extended_space * 3 - open_directions * 16
          + (IF open_directions < 2 THEN -40 ELSE 0)
          + (IF open_directions >= 3 THEN 30 ELSE 0)

\* returns twice the source's value
evaluate_space_advanced(new_head, my_body, opponents, board_width, board_height) ==
    LET counted == AdvancedFill(new_head, my_body, opponents,
                                board_width, board_height)
        immediate_space == Cardinality({e \in counted : e[2] < 3})
        extended_space == Cardinality({e \in counted : ~(e[2] < 3)})
        open_directions ==
            OpenDirections(new_head, my_body, opponents, board_width, board_height)
    IN  immediate_space * 8 + extended_space * 3 + open_directions * 16
          + (IF open_directions < 2 THEN -40 ELSE 0)
          + (IF open_directions >= 3 THEN 30 ELSE 0)

----------------------------------------------------------------------------
(* MoveScorer: sub-scores *)

is_straight_line(body, move) ==
    IF Len(body) < 2 THEN FALSE
    ELSE LET head == body[1]
             neck == body[2]
             current_direction ==
                 CASE head.x > neck.x -> "right"
                   [] head.x < neck.x -> "left"
                   [] head.x = neck.x /\ head.y > neck.y -> "up"
                   [] head.x = neck.x /\ head.y < neck.y -> "down"
                   [] OTHER -> "None"
         IN  current_direction = move

\* min(foods, key=lambda f: get_distance(from_pos, f)): the first minimum
NearestFood(foods, from_pos) ==
    foods[CHOOSE i \in 1..Len(foods) :
            /\ \A j \in 1..Len(foods) :
                   get_distance(from_pos, foods[i]) <= get_distance(from_pos, foods[j])
            /\ \A j \in 1..(i - 1) :
                   get_distance(from_pos, foods[j]) > get_distance(from_pos, foods[i])]

\* mutant: the comparisons point the wrong way (moving away is rewarded)
ApproachScore_Away(distance_to_food, current_distance) ==
    IF distance_to_food > current_distance
    THEN 25
         + (IF distance_to_food - current_distance = 1 THEN 10 ELSE 0)
         + (IF distance_to_food = 0 THEN 100
            ELSE IF distance_to_food = 1 THEN 40 ELSE 0)
    ELSE IF distance_to_food < current_distance THEN -10 ELSE 0

\* "Reward moving closer to food" of evaluate_food_seeking
ApproachScore(distance_to_food, current_distance) ==
    IF distance_to_food < current_distance
    THEN 25
         + (IF current_distance - distance_to_food = 1 THEN 10 ELSE 0)
         + (IF distance_to_food = 0 THEN 100
            ELSE IF distance_to_food = 1 THEN 40 ELSE 0)
    ELSE IF distance_to_food > current_distance THEN -10 ELSE 0

\* mutant: the penalty is charged for every opponent, closer or not
ContestPenalty_AnyDistance(opponents, nearest_food, distance_to_food, my_length) ==
    LET Pen[o \in 0..Len(opponents)] ==
            IF o = 0 THEN 0
            ELSE Pen[o - 1] + (IF Len(opponents[o].body) >= my_length THEN 20 ELSE 5)
    IN  Pen[Len(opponents)]

\* the loop "for opponent in opponents" of evaluate_food_seeking: the total
\* it subtracts from the score
ContestPenalty(opponents, nearest_food, distance_to_food, my_length) ==
    LET Pen[o \in 0..Len(opponents)] ==
            IF o = 0 THEN 0
            ELSE Pen[o - 1] +
                 (IF get_distance(opponents[o].head, nearest_food) < distance_to_food
                  THEN IF Len(opponents[o].body) >= my_length THEN 20 ELSE 5
                  ELSE 0)
    IN  Pen[Len(opponents)]

\* the flag "contested" after that loop
Contested(opponents, nearest_food, distance_to_food, my_length) ==
    \E o \in 1..Len(opponents) :
        /\ get_distance(opponents[o].head, nearest_food) < distance_to_food
        /\ Len(opponents[o].body) >= my_length

evaluate_food_seeking(new_head, my_head, food, opponents, my_length) ==
    IF Len(food) = 0 THEN 0
    ELSE LET nearest_food == NearestFood(food, my_head)
             distance_to_food == get_distance(new_head, nearest_food)
             current_distance == get_distance(my_head, nearest_food)
             approach == ApproachScore(distance_to_food, current_distance)
             other_foods == SelectSeq(food, LAMBDA f : f # nearest_food)
             alternative ==
                 IF /\ Contested(opponents, nearest_food, distance_to_food, my_length)
                    /\ Len(food) > 1
                    /\ Len(other_foods) > 0
                 THEN LET alt_food == NearestFood(other_foods, my_head)
                      IN  IF get_distance(new_head, alt_food)
                                 < get_distance(my_head, alt_food)
                          THEN 15 ELSE 0
                 ELSE 0
         IN  approach
               - ContestPenalty(opponents, nearest_food, distance_to_food, my_length)
               + alternative

evaluate_hunting(new_head, my_length, opponents, board_width, board_height) ==
    LET Sum[o \in 0..Len(opponents)] ==
            IF o = 0 THEN 0
            ELSE Sum[o - 1] +
                 (IF my_length > Len(opponents[o].body)
                  THEN LET distance == get_distance(new_head, opponents[o].head)
                       IN  IF distance <= 3 THEN (4 - distance) * 15
                           ELSE IF distance <= 5 THEN (6 - distance) * 5
                           ELSE 0
                  ELSE 0)
    IN  Sum[Len(opponents)]

evaluate_underdog_avoidance(new_head, my_length, opponents, board_width, board_height) ==
    LET Sum[o \in 0..Len(opponents)] ==
            IF o = 0 THEN 0
            ELSE Sum[o - 1] +
                 (IF Len(opponents[o].body) > my_length
                  THEN LET opponent_head == opponents[o].head
                           distance == get_distance(new_head, opponent_head)
                           \* the point passed is new_head - (new_head - opponent_head)
                           current_distance ==
                               get_distance(opponent_head,
                                   Cell(new_head.x - (new_head.x - opponent_head.x),
                                        new_head.y - (new_head.y - opponent_head.y)))
                       IN  (IF distance <= 2 THEN -30
                            ELSE IF distance <= 4 THEN -((5 - distance) * 8)
                            ELSE IF distance >= 6 THEN 5
                            ELSE 0)
                           + (IF distance < current_distance THEN -15 ELSE 0)
                  ELSE 0)
    IN  Sum[Len(opponents)]

\* one opponent's share of evaluate_blocking
BlockingOf(opponent, new_head, my_length, opponents, board_width, board_height) ==
    LET opponent_head == opponent.head
        opponent_length == Len(opponent.body)
        opp_possible_moves == get_possible_moves(opponent_head, board_width, board_height)
        Routes[k \in 0..Len(opp_possible_moves)] ==
            IF k = 0 THEN 0
            ELSE Routes[k - 1] +
                 (IF get_distance(new_head, opp_possible_moves[k]) <= 1
                  THEN IF my_length > opponent_length THEN 20
                       ELSE IF my_length = opponent_length THEN 5
                       ELSE 0
                  ELSE 0)
        opponent_space ==
            count_reachable_space(opponent_head, opponent.body, opponents,
                                  board_width, board_height, my_length)
    IN  Routes[Len(opp_possible_moves)]
          + (IF /\ opponent_space < 15
                /\ get_distance(new_head, opponent_head) <= 2
                /\ my_length > opponent_length
             THEN 15 ELSE 0)

evaluate_blocking(new_head, my_length, my_health, opponents, board_width, board_height) ==
    IF my_health < 30 THEN 0
    ELSE LET Sum[o \in 0..Len(opponents)] ==
                 IF o = 0 THEN 0
                 ELSE Sum[o - 1] + BlockingOf(opponents[o], new_head, my_length,
                                              opponents, board_width, board_height)
         IN  Sum[Len(opponents)]

----------------------------------------------------------------------------
(* MoveScorer: centre control and area coverage *)

\* one opponent's share of evaluate_center_control (twice the source's value)
CenterPenaltyOf(opponent, new_head, board_width, board_height) ==
    LET opp_body == opponent.body
        Seg[k \in 0..Len(opp_body)] ==
            IF k = 0 THEN 0
            ELSE Seg[k - 1] +
                 (LET dist_to_segment == Abs(new_head.x - opp_body[k].x)
                                           + Abs(new_head.y - opp_body[k].y)
                  IN  IF dist_to_segment <= 1 THEN -60
                      ELSE IF dist_to_segment = 2 THEN -20 ELSE 0)
        opponent_next_moves == get_possible_moves(opponent.head, board_width, board_height)
        Nxt[k \in 0..Len(opponent_next_moves)] ==
            IF k = 0 THEN 0
            ELSE Nxt[k - 1] +
                 (LET next_pos == opponent_next_moves[k]
                  IN  IF new_head.x = next_pos.x /\ new_head.y = next_pos.y THEN -80
                      ELSE IF Abs(new_head.x - next_pos.x)
                                + Abs(new_head.y - next_pos.y) = 1 THEN -30
                      ELSE 0)
        head_distance == Abs(new_head.x - opponent.head.x)
                           + Abs(new_head.y - opponent.head.y)
    IN  Seg[Len(opp_body)] + Nxt[Len(opponent_next_moves)]
          + (IF head_distance <= 2 THEN -50
             ELSE IF head_distance <= 3 THEN -20 ELSE 0)

\* returns twice the source's value
evaluate_center_control(new_head, my_body, my_length, board_width, board_height, opponents) ==
    LET \* twice distance_from_center and twice max_distance
        distance_from_center2 == Abs(2 * new_head.x - board_width)
                                   + Abs(2 * new_head.y - board_height)
        max_distance2 == board_width + board_height
        center_bonus2 == (max_distance2 - distance_from_center2) * 5
        edge_distance ==
            Min2(Min2(new_head.x, new_head.y),
                 Min2(board_width - 1 - new_head.x, board_height - 1 - new_head.y))
        Opp[o \in 0..Len(opponents)] ==
            IF o = 0 THEN 0
            ELSE Opp[o - 1] + CenterPenaltyOf(opponents[o], new_head,
                                              board_width, board_height)
    IN  center_bonus2
          + (IF distance_from_center2 <= 4 THEN 50
             ELSE IF distance_from_center2 <= 8 THEN 20 ELSE 0)
          + (IF edge_distance = 0 THEN -30
             ELSE IF edge_distance = 1 THEN -16 ELSE 0)
          + Opp[Len(opponents)]
          + (IF my_length > 8 /\ distance_from_center2 <= 6 THEN 3 * my_length ELSE 0)

\* returns the source's value times board_width * board_height
calculate_body_spread(my_body, board_width, board_height) ==
    IF Len(my_body) < 4 THEN 0
    ELSE LET xs == {my_body[i].x : i \in 1..Len(my_body)}
             ys == {my_body[i].y : i \in 1..Len(my_body)}
             min_x == CHOOSE v \in xs : \A u \in xs : v <= u
             max_x == CHOOSE v \in xs : \A u \in xs : v >= u
             min_y == CHOOSE v \in ys : \A u \in ys : v <= u
             max_y == CHOOSE v \in ys : \A u \in ys : v >= u
             width == max_x - min_x + 1
             height == max_y - min_y + 1
             coverage_area == width * height
         IN  coverage_area * 50

\* center_x and center_y are passed doubled
evaluate_body_blocking(new_head, my_body, opponents, board_width, board_height, center_x, center_y) ==
    IF Len(my_body) < 8 THEN 0
    ELSE LET \* len(horizontal_lines[y]) and len(vertical_lines[x])
             InRow(v) == Cardinality({i \in 1..Len(my_body) : my_body[i].y = v})
             InCol(v) == Cardinality({i \in 1..Len(my_body) : my_body[i].x = v})
             rows == {my_body[i].y : i \in 1..Len(my_body)}
             cols == {my_body[i].x : i \in 1..Len(my_body)}
             RECURSIVE SumOver(_, _, _)
             SumOver(S, count, op) ==
                 IF S = {} THEN 0
                 ELSE LET v == CHOOSE u \in S : TRUE
                      IN  (IF (IF op = "row" THEN InRow(v) ELSE InCol(v)) >= count
                           THEN (IF op = "row" THEN InRow(v) ELSE InCol(v)) * 3
                           ELSE 0)
                          + SumOver(S \ {v}, count, op)
             center_crossed ==
                 \E i \in 1..Len(my_body) :
                     \/ Abs(2 * my_body[i].x - center_x) <= 2
                     \/ Abs(2 * my_body[i].y - center_y) <= 2
             SegmentsBetween(opp_head) ==
                 Cardinality({i \in 1..Len(my_body) :
                     /\ \/ (opp_head.x < my_body[i].x /\ 2 * my_body[i].x < center_x)
                        \/ (center_x < 2 * my_body[i].x /\ my_body[i].x < opp_head.x)
                     /\ \/ (opp_head.y < my_body[i].y /\ 2 * my_body[i].y < center_y)
                        \/ (center_y < 2 * my_body[i].y /\ my_body[i].y < opp_head.y)})
             Bar[o \in 0..Len(opponents)] ==
                 IF o = 0 THEN 0
                 ELSE Bar[o - 1] +
                      (IF SegmentsBetween(opponents[o].head) >= 3 THEN 12 ELSE 0)
         IN  SumOver(rows, 4, "row") + SumOver(cols, 4, "col")
               + (IF center_crossed /\ Len(my_body) >= 10 THEN 15 ELSE 0)
               + Bar[Len(opponents)]

\* returns the source's value times board_width * board_height
evaluate_area_coverage(new_head, my_body, my_length, my_health, opponents, board_width, board_height) ==
    IF my_health < 20 \/ my_length < 5 THEN 0
    ELSE LET area == board_width * board_height
             \* segment.x < center_x  <=>  2 * segment.x < board_width
             Quadrant(c) == <<IF 2 * c.x < board_width THEN 0 ELSE 1,
                              IF 2 * c.y < board_height THEN 0 ELSE 1>>
             quadrants_covered == {Quadrant(my_body[i]) : i \in 1..Len(my_body)}
             quadrant_bonus == Cardinality(quadrants_covered) * 8
             new_quadrant == Quadrant(new_head)
             blocking_value ==
                 IF my_length >= 8
                 THEN evaluate_body_blocking(new_head, my_body, opponents, board_width,
                                             board_height, board_width, board_height)
                 ELSE 0
             body_spread == calculate_body_spread(my_body, board_width, board_height)
         IN  area * (quadrant_bonus
                       + (IF new_quadrant \notin quadrants_covered THEN 20 ELSE 0)
                       + blocking_value)
               + body_spread * 3

----------------------------------------------------------------------------
(* StrategySelector *)

OppSizes(opponents) == [o \in 1..Len(opponents) |-> Len(opponents[o].body)]

MaxOf(sizes) == CHOOSE v \in Range(sizes) : \A u \in Range(sizes) : v >= u

MinOf(sizes) == CHOOSE v \in Range(sizes) : \A u \in Range(sizes) : v <= u

\* the locals evaluate_move pre-calculates from the opponents' sizes
SizeFacts(my_length, opponents) ==
    IF Len(opponents) > 0
    THEN LET opp_sizes == OppSizes(opponents)
         IN  [all_bigger |-> \A o \in 1..Len(opp_sizes) : opp_sizes[o] > my_length,
              any_smaller |-> \E o \in 1..Len(opp_sizes) : opp_sizes[o] < my_length,
              size_gap_from_largest |-> MaxOf(opp_sizes) - my_length,
              size_gap_from_smallest |-> my_length - MinOf(opp_sizes)]
    ELSE [all_bigger |-> FALSE, any_smaller |-> FALSE,
          size_gap_from_largest |-> 0, size_gap_from_smallest |-> 0]

\* mutant: the crowded-board test comes before the two size-gap tests
StrategyBranch_CrowdFirst(my_health, my_length, opponents) ==
    LET f == SizeFacts(my_length, opponents)
        num_opponents == Len(opponents)
    IN  IF my_health < 15 THEN "CRITICAL"
        ELSE IF my_health > 20 /\ num_opponents >= 2 THEN "CONSERVATIVE MODE"
        ELSE IF f.size_gap_from_largest >= 2 THEN "CLOSE THE GAP"
        ELSE IF f.size_gap_from_smallest >= 2 /\ my_health > 50 THEN "TOO DOMINANT"
        ELSE IF f.all_bigger THEN "UNDERDOG"
        ELSE IF my_health >= 20 /\ f.any_smaller THEN "COMPETITIVE"
        ELSE "SURVIVAL"

\* which arm of the if/elif chain of evaluate_move ("Factor 4") is taken
StrategyBranch(my_health, my_length, opponents) ==
    LET f == SizeFacts(my_length, opponents)
        num_opponents == Len(opponents)
    IN  IF my_health < 15 THEN "CRITICAL"
        ELSE IF f.size_gap_from_largest >= 2 THEN "CLOSE THE GAP"
        ELSE IF f.size_gap_from_smallest >= 2 /\ my_health > 50 THEN "TOO DOMINANT"
        ELSE IF my_health > 20 /\ num_opponents >= 2 THEN "CONSERVATIVE MODE"
        ELSE IF f.all_bigger THEN "UNDERDOG"
        ELSE IF my_health >= 20 /\ f.any_smaller THEN "COMPETITIVE"
        ELSE "SURVIVAL"

\* mutant: the test for no opponents comes before the health test
determine_strategy_SoloFirst(my_health, my_length, opponents, food) ==
    IF Len(opponents) = 0 THEN "SOLO - DOMINATING"
    ELSE IF my_health < 15 THEN "CRITICAL - FOOD NOW"
    ELSE "SURVIVAL MODE"

\* the label determine_strategy returns (without its emoji and its numbers)
determine_strategy(my_health, my_length, opponents, food) ==
    LET num_opponents == Len(opponents)
    IN  IF my_health < 15 THEN "CRITICAL - FOOD NOW"
        ELSE IF Len(opponents) = 0 THEN "SOLO - DOMINATING"
        ELSE LET opp_sizes == OppSizes(opponents)
                 max_opponent_size == MaxOf(opp_sizes)
                 min_opponent_size == MinOf(opp_sizes)
                 size_gap_from_largest == max_opponent_size - my_length
                 size_gap_from_smallest == my_length - min_opponent_size
                 all_opponents_bigger ==
                     \A o \in 1..Len(opp_sizes) : opp_sizes[o] > my_length
                 any_smaller ==
                     \E o \in 1..Len(opp_sizes) : opp_sizes[o] < my_length
             IN  IF size_gap_from_largest >= 2 THEN "CLOSING GAP"
                 ELSE IF size_gap_from_smallest >= 2 /\ my_health > 50
                      THEN "TOO LONG - MAINTAIN"
                 ELSE IF my_health > 20 /\ num_opponents >= 2
                      THEN "CONSERVATIVE - SURVIVAL"
                 ELSE IF all_opponents_bigger
                      THEN IF my_health >= 20 THEN "UNDERDOG - GROWING"
                           ELSE "UNDERDOG - SURVIVAL"
                 ELSE IF my_health >= 20 /\ any_smaller THEN "COMPETITIVE MODE"
                 ELSE IF my_health < 20 THEN "SURVIVAL MODE"
                 ELSE "EFFICIENT PLAY"

----------------------------------------------------------------------------
(* MoveScorer: the composite score *)

\* "Factor 4" of evaluate_move, in twentieths (weight in tenths times twice
\* the sub-score)
StrategyScore(new_head, my_head, my_length, my_health, opponents, food, board_width, board_height) ==
    LET f == SizeFacts(my_length, opponents)
        num_opponents == Len(opponents)
        branch == StrategyBranch(my_health, my_length, opponents)
        food_seeking == evaluate_food_seeking(new_head, my_head, food, opponents, my_length)
        hunting == evaluate_hunting(new_head, my_length, opponents,
                                    board_width, board_height)
        avoidance == evaluate_underdog_avoidance(new_head, my_length, opponents,
                                                 board_width, board_height)
        blocking == evaluate_blocking(new_head, my_length, my_health, opponents,
                                      board_width, board_height)
    IN  CASE branch = "CRITICAL" -> 45 * 2 * food_seeking
          [] branch = "CLOSE THE GAP" ->
                 40 * 2 * food_seeking
                   + (IF my_health >= 20 THEN 25 * 2 * avoidance ELSE 0)
          [] branch = "TOO DOMINANT" ->
                 2 * 2 * food_seeking + 20 * 2 * hunting + 25 * 2 * blocking
          [] branch = "CONSERVATIVE MODE" ->
                 1 * 2 * food_seeking
                   + (IF f.any_smaller THEN 10 * 2 * hunting ELSE 0)
                   + (IF f.all_bigger \/ ~f.any_smaller THEN 30 * 2 * avoidance ELSE 0)
          [] branch = "UNDERDOG" ->
                 35 * 2 * food_seeking
                   + (IF my_health >= 20 THEN 20 * 2 * avoidance ELSE 0)
          [] branch = "COMPETITIVE" ->
                 20 * 2 * hunting + 15 * 2 * blocking
                   + (IF Len(food) > 0 /\ num_opponents < 2
                      THEN 15 * 2 * food_seeking ELSE 0)
          [] OTHER -> 20 * 2 * food_seeking

\* returns the source's value times 20 * board_width * board_height
evaluate_move(move, new_head, my_head, my_body, my_length, my_health, opponents, food, board_width, board_height) ==
    LET area == board_width * board_height
    IN  IF check_opponent_bodies(new_head, opponents, food) THEN -1000 * 20 * area
        ELSE IF \E i \in 1..Len(AllButLast(my_body)) :
                    new_head.x = my_body[i].x /\ new_head.y = my_body[i].y
             THEN -1000 * 20 * area
        ELSE
          (IF Len(my_body) >= 2 /\ is_straight_line(my_body, move)
           THEN 6 * 20 * area ELSE 0)
          + 20 * area * evaluate_head_to_head(new_head, my_length, opponents,
                                              board_width, board_height)
          + area * StrategyScore(new_head, my_head, my_length, my_health, opponents,
                                 food, board_width, board_height)
          + 20 * area * evaluate_space_advanced(new_head, my_body, opponents,
                                                board_width, board_height)
          + (IF my_health >= 25 /\ my_length >= 5
             THEN 20 * area * evaluate_center_control(new_head, my_body, my_length,
                                  board_width, board_height, opponents)
             ELSE 0)
          + (IF my_health >= 30 /\ my_length >= 8
             THEN 30 * evaluate_area_coverage(new_head, my_body, my_length, my_health,
                                              opponents, board_width, board_height)
             ELSE 0)

----------------------------------------------------------------------------
(* Decision entrypoint: move() *)

\* opponents = [s for s in all_snakes if s["id"] != my_id]
opponents == SelectSeq(board.snakes, LAMBDA s : s.id # you.id)

my_head == you.head
my_body == you.body
my_length == Len(you.body)
my_health == you.health
food == board.food
board_width == board.width
board_height == board.height

NoScores == [m \in {} |-> 0]

\* mutant: the loop leaves out the head-to-head validation
IsScored_NoThreatTest(new_head) ==
    /\ is_basic_safe(new_head, board_width, board_height, my_body, food)
    /\ ~check_opponent_bodies(new_head, opponents, food)

\* the three "continue" tests of the loop body: TRUE when the move is scored
IsScored(new_head) ==
    /\ is_basic_safe(new_head, board_width, board_height, my_body, food)
    /\ ~check_opponent_bodies(new_head, opponents, food)
    /\ validate_move_against_opponents(new_head, my_length, opponents,
                                       board_width, board_height)

\* one iteration of "for move in possible_moves"
ScanMove ==
    /\ pc = "scan"
    /\ next_move <= Len(possible_moves)
    /\ LET move == possible_moves[next_move]
           new_head == get_new_head_position(my_head, move)
       IN  IF IsScored(new_head)
           THEN /\ move_scores' =
                       [m \in DOMAIN move_scores \cup {move} |->
                           IF m = move
                           THEN evaluate_move(move, new_head, my_head, my_body,
                                              my_length, my_health, opponents, food,
                                              board_width, board_height)
                           ELSE move_scores[m]]
                /\ calls' = calls + 1
           ELSE UNCHANGED <<move_scores, calls>>
    /\ next_move' = next_move + 1
    /\ pc' = IF next_move = Len(possible_moves) THEN "select" ELSE "scan"
    /\ UNCHANGED <<board, you, chosen_move, ret>>

\* mutant: another default
DefaultMove_Up == "up"

\* the fixed move returned when nothing was scored
DefaultMove == "down"

\* "if len(move_scores) == 0"
NoSafeMoves ==
    /\ pc = "select"
    /\ DOMAIN move_scores = {}
    /\ chosen_move' = DefaultMove
    /\ pc' = "return"
    /\ UNCHANGED <<board, you, move_scores, next_move, calls, ret>>

\* mutant: the last key with the largest score
MaxKey_Last(scores) ==
    CHOOSE m \in DOMAIN scores :
        /\ \A n \in DOMAIN scores : scores[n] <= scores[m]
        /\ \A n \in DOMAIN scores :
               scores[n] = scores[m] => MoveIndex(m) >= MoveIndex(n)

\* max(move_scores, key=move_scores.get): the first key, in insertion order,
\* with the largest score
MaxKey(scores) ==
    CHOOSE m \in DOMAIN scores :
        /\ \A n \in DOMAIN scores : scores[n] <= scores[m]
        /\ \A n \in DOMAIN scores :
               scores[n] = scores[m] => MoveIndex(m) <= MoveIndex(n)

ChooseHighest ==
    /\ pc = "select"
    /\ DOMAIN move_scores # {}
    /\ chosen_move' = MaxKey(move_scores)
    /\ pc' = "final_check"
    /\ UNCHANGED <<board, you, move_scores, next_move, calls, ret>>

\* safe_alternatives: the moves other than chosen that pass the validation;
\* sorted(..., reverse=True) is stable, so the first of them is MaxKey of the
\* scores restricted to them
SafeAlternatives(chosen) ==
    {m \in DOMAIN move_scores \ {chosen} :
        validate_move_against_opponents(get_new_head_position(my_head, m), my_length,
                                        opponents, board_width, board_height)}

\* mutant: the test of the final check is inverted
FinalChoice_Inverted(chosen) ==
    LET chosen_head == get_new_head_position(my_head, chosen)
        is_safe_from_larger ==
            validate_move_against_opponents(chosen_head, my_length, opponents,
                                            board_width, board_height)
        safe_alternatives == SafeAlternatives(chosen)
    IN  IF is_safe_from_larger
        THEN IF safe_alternatives # {}
             THEN MaxKey([m \in safe_alternatives |-> move_scores[m]])
             ELSE chosen
        ELSE chosen

\* "Step 3: FINAL SAFETY CHECK"
FinalChoice(chosen) ==
    LET chosen_head == get_new_head_position(my_head, chosen)
        is_safe_from_larger ==
            validate_move_against_opponents(chosen_head, my_length, opponents,
                                            board_width, board_height)
        safe_alternatives == SafeAlternatives(chosen)
    IN  IF ~is_safe_from_larger
        THEN IF safe_alternatives # {}
             THEN MaxKey([m \in safe_alternatives |-> move_scores[m]])
             ELSE chosen
        ELSE chosen

FinalSafetyCheck ==
    /\ pc = "final_check"
    /\ chosen_move' = FinalChoice(chosen_move)
    /\ pc' = "return"
    /\ UNCHANGED <<board, you, move_scores, next_move, calls, ret>>

\* return jsonify({"move": chosen_move})
Return ==
    /\ pc = "return"
    /\ ret' = [move |-> chosen_move]
    /\ pc' = "done"
    /\ UNCHANGED <<board, you, move_scores, chosen_move, next_move, calls>>

----------------------------------------------------------------------------
(* The snapshots checked *)

Cells(w, h) == {Cell(cx, cy) : cx \in 0..(w - 1), cy \in 0..(h - 1)}

Adjacent(a, b) == Abs(a.x - b.x) + Abs(a.y - b.y) = 1

\* the bodies of n segments on the board, each segment next to the one before
\* it, no cell used twice
RECURSIVE Paths(_, _, _)
Paths(n, w, h) ==
    IF n = 1 THEN {<<c>> : c \in Cells(w, h)}
    ELSE UNION {{Append(b, c) : c \in {d \in Cells(w, h) :
                                          Adjacent(b[Len(b)], d) /\ d \notin Range(b)}}
                : b \in Paths(n - 1, w, h)}

PathsUpTo(n, w, h) == UNION {Paths(k, w, h) : k \in 1..n}

\* bodies a game produces: a path, or a path whose tail is doubled (the snake
\* has just eaten)
Bodies(n, w, h) ==
    PathsUpTo(n, w, h)
        \cup {Append(b, b[Len(b)]) : b \in PathsUpTo(n - 1, w, h)}

\* the body of n segments laid out from head, each one step d further
Straight(head, d, n) ==
    [i \in 1..n |-> Cell(head.x + (i - 1) * d[1], head.y + (i - 1) * d[2])]

Directions == {<<1, 0>>, <<-1, 0>>, <<0, 1>>, <<0, -1>>}

OnBoard(b, w, h) == \A i \in 1..Len(b) : InBounds(b[i], w, h)

\* the straight bodies of lengths lo..hi on the board
StraightBodies(lo, hi, w, h) ==
    {b \in {Straight(c, d, k) : c \in Cells(w, h), d \in Directions, k \in lo..hi} :
        OnBoard(b, w, h)}

\* the straight bodies of lengths lo..hi whose tail lies east of the head
EastBodies(lo, hi, w, h) ==
    {b \in {Straight(c, <<1, 0>>, k) : c \in Cells(w, h), k \in lo..hi} :
        OnBoard(b, w, h)}

Snake(id, body, health) ==
    [id |-> id, head |-> body[1], body |-> body, health |-> health]

\* the state move() starts in for the snapshot (b, me)
Request(b, me) ==
    /\ board = b
    /\ you = me
    /\ pc = "scan"
    /\ move_scores = NoScores
    /\ chosen_move = ""
    /\ next_move = 1
    /\ calls = 0
    /\ ret = [move |-> ""]

\* opponents are at most this long in the families with opponents
OppLen == MaxLen - 2

\* no food, or one food next to cell c
FoodNextTo(c, w, h) == {<<>>} \cup {<<d>> : d \in {e \in Cells(w, h) : Adjacent(c, e)}}

\* alone on the board: every body up to MaxLen, no food or one next to the head
InitSolo ==
    \E body \in Bodies(MaxLen, BoardSize, BoardSize), health \in {10, 60} :
        \E f \in FoodNextTo(body[1], BoardSize, BoardSize) :
            LET me == Snake("me", body, health)
            IN  Request([width |-> BoardSize, height |-> BoardSize, food |-> f,
                         snakes |-> <<me>>], me)

\* one opponent: a self lying east of its head, an opponent that is a short
\* body or a straight one, disjoint from self; no food or one next to the
\* opponent's head
InitDuel ==
    \E body \in EastBodies(1, OppLen, BoardSize, BoardSize),
       other \in Bodies(2, BoardSize, BoardSize)
                   \cup StraightBodies(3, OppLen, BoardSize, BoardSize) :
        /\ Range(body) \cap Range(other) = {}
        /\ \E f \in FoodNextTo(other[1], BoardSize, BoardSize) :
            LET me == Snake("me", body, 60)
                opp == Snake("a", other, 60)
            IN  Request([width |-> BoardSize, height |-> BoardSize, food |-> f,
                         snakes |-> <<opp, me>>], me)

\* two opponents lying east of their heads, disjoint from each other and
\* from a self of two segments
InitCrowd ==
    \E body \in EastBodies(2, 2, BoardSize, BoardSize),
       first \in EastBodies(1, OppLen, BoardSize, BoardSize),
       second \in EastBodies(1, OppLen, BoardSize, BoardSize) :
        /\ Range(body) \cap Range(first) = {}
        /\ Range(body) \cap Range(second) = {}
        /\ Range(first) \cap Range(second) = {}
        /\ LET me == Snake("me", body, 60)
           IN  Request([width |-> BoardSize, height |-> BoardSize, food |-> <<>>,
                        snakes |-> <<me, Snake("a", first, 60), Snake("b", second, 60)>>],
                       me)

\* the 11 x 11 board: self at the left wall with head (0,5), an opponent with
\* head (1,5) or next to (0,6)
InitWall ==
    \E body \in {b \in StraightBodies(1, 4, 11, 11) : b[1] = Cell(0, 5)},
       other \in {b \in EastBodies(1, 4, 11, 11) :
                      b[1] \in {Cell(1, 5), Cell(1, 6)}}
                  \cup {b \in StraightBodies(1, 4, 11, 11) : b[1] = Cell(0, 7)},
       f \in {<<>>, <<Cell(0, 8)>>, <<Cell(3, 5)>>} :
        /\ Range(body) \cap Range(other) = {}
        /\ LET me == Snake("me", body, 60)
           IN  Request([width |-> 11, height |-> 11, food |-> f,
                        snakes |-> <<me, Snake("a", other, 60)>>], me)

\* the 11 x 11 board: self (5,5),(5,4),(5,3), health 50, no opponents, one food
InitFoodRun ==
    \E f \in Cells(11, 11) :
        LET me == Snake("me", <<Cell(5, 5), Cell(5, 4), Cell(5, 3)>>, 50)
        IN  Request([width |-> 11, height |-> 11, food |-> <<f>>,
                     snakes |-> <<me>>], me)

\* the 11 x 11 board: a long straight self and one opponent in the centre
InitLong ==
    \E body \in StraightBodies(8, 10, 11, 11), health \in {25, 60} :
        /\ Range(body) \cap {Cell(5, 5), Cell(6, 5)} = {}
        /\ LET me == Snake("me", body, health)
           IN  Request([width |-> 11, height |-> 11, food |-> <<Cell(2, 2)>>,
                        snakes |-> <<me, Snake("a", <<Cell(5, 5), Cell(6, 5)>>, 60)>>],
                       me)

Init == InitSolo \/ InitDuel \/ InitCrowd \/ InitWall \/ InitFoodRun \/ InitLong

Next == ScanMove \/ NoSafeMoves \/ ChooseHighest \/ FinalSafetyCheck \/ Return

Spec == Init /\ [][Next]_vars

----------------------------------------------------------------------------
(* Properties of move() *)

NewHead(m) == get_new_head_position(my_head, m)

Scored == DOMAIN move_scores

\* cell c is one step, inside the board, from the head of an opponent at
\* least as long as self
Fatal(c) ==
    \E o \in 1..Len(opponents) :
        /\ Len(opponents[o].body) >= my_length
        /\ InBounds(c, board_width, board_height)
        /\ Adjacent(c, opponents[o].head)

\* cell c holds a segment of self that is still there next turn: any segment
\* but the last, and the last one too when c is a food cell
StillOccupiedBySelf(c) ==
    \/ \E i \in 1..(Len(my_body) - 1) : my_body[i] = c
    \/ (c \in Range(food) /\ my_body[Len(my_body)] = c)

\* the handler has a step to take: the guard of one of its steps holds
CanStep ==
    \/ (pc = "scan" /\ next_move <= Len(possible_moves))
    \/ pc = "select"
    \/ pc = "final_check"
    \/ pc = "return"

\* C1: for every snapshot, move() runs to its return and returns one of the
\* four tokens up, down, left, right: every state before the return has a step
\* to take, max() is only applied to a non-empty move_scores, and a scored
\* move implies a board of non-zero area (the divisor in calculate_body_spread).
C1_ReturnsOneMove ==
    /\ pc = "done" => ret.move \in {"up", "down", "left", "right"}
    /\ pc # "done" => CanStep
    /\ pc = "final_check" => (Scored # {} /\ chosen_move \in Scored)
    /\ Scored # {} => board_width * board_height > 0

C1_Witness ==
    /\ pc = "done"
    /\ ret.move \in {"up", "down", "left", "right"}
    /\ Len(opponents) > 0
    /\ Len(food) > 0
    /\ calls > 1

\* every one of the four moves fails one of the three tests of the loop
AllRejected ==
    \A m \in {"up", "down", "left", "right"} :
        \/ ~is_basic_safe(NewHead(m), board_width, board_height, my_body, food)
        \/ check_opponent_bodies(NewHead(m), opponents, food)
        \/ ~validate_move_against_opponents(NewHead(m), my_length, opponents,
                                            board_width, board_height)

\* C2: when all four moves are rejected by is_basic_safe, check_opponent_bodies
\* or validate_move_against_opponents, nothing is scored, evaluate_move is
\* never called, and move() returns "down".
C2_DefaultWhenAllRejected ==
    AllRejected =>
        /\ Scored = {}
        /\ calls = 0
        /\ pc = "done" => ret.move = "down"

C2_Witness ==
    /\ pc = "done"
    /\ AllRejected
    /\ Len(opponents) > 0
    /\ ret.move = "down"

\* C3: a move accepted by is_basic_safe leads to a cell inside the board that
\* holds no segment of self still there next turn; so does every scored move
\* and, when something was scored, the move returned.
C3_BasicSafeAvoidsWallAndSelf ==
    /\ \A m \in Moves :
           is_basic_safe(NewHead(m), board_width, board_height, my_body, food)
               => /\ InBounds(NewHead(m), board_width, board_height)
                  /\ ~StillOccupiedBySelf(NewHead(m))
    /\ \A m \in Scored :
           /\ InBounds(NewHead(m), board_width, board_height)
           /\ ~StillOccupiedBySelf(NewHead(m))
    /\ (pc = "done" /\ Scored # {}) =>
           /\ InBounds(NewHead(ret.move), board_width, board_height)
           /\ ~StillOccupiedBySelf(NewHead(ret.move))

\* move() has returned a move onto the cell self's tail is leaving, with food
\* on the board but not on that cell
C3_Witness ==
    /\ pc = "done"
    /\ Scored # {}
    /\ Len(my_body) >= 4
    /\ Len(food) > 0
    /\ NewHead(ret.move) = my_body[Len(my_body)]

\* the scored move with the largest score, the earliest of them in the order
\* up, down, left, right
TopRanked ==
    CHOOSE m \in Scored :
        \A n \in Scored \ {m} :
            \/ move_scores[n] < move_scores[m]
            \/ (move_scores[n] = move_scores[m] /\ MoveIndex(m) < MoveIndex(n))

\* the scored moves other than the top-ranked one that are not fatal
NonFatalOthers == {m \in Scored \ {TopRanked} : ~Fatal(NewHead(m))}

\* the first of them in descending score order (ties in the order up, down,
\* left, right)
BestNonFatalOther ==
    CHOOSE m \in NonFatalOthers :
        \A n \in NonFatalOthers \ {m} :
            \/ move_scores[n] < move_scores[m]
            \/ (move_scores[n] = move_scores[m] /\ MoveIndex(m) < MoveIndex(n))

\* C5: the move returned is the top-ranked scored move when that move is not
\* fatal; otherwise the first non-fatal scored move in descending score order;
\* the top-ranked one is kept only when no scored move is non-fatal.  So when
\* some scored move is not fatal, the move returned is not fatal.
C5_TopMoveIsValidated ==
    (pc = "done" /\ Scored # {}) =>
        /\ ret.move = (IF ~Fatal(NewHead(TopRanked)) THEN TopRanked
                       ELSE IF NonFatalOthers # {} THEN BestNonFatalOther
                       ELSE TopRanked)
        /\ (\E m \in Scored : ~Fatal(NewHead(m))) => ~Fatal(NewHead(ret.move))

\* move() has returned, at least two moves were scored, and a move that is
\* safe from walls and bodies was kept out because it is fatal
C5_Witness ==
    /\ pc = "done"
    /\ Cardinality(Scored) >= 2
    /\ ~Fatal(NewHead(ret.move))
    /\ \E m \in Moves :
           /\ is_basic_safe(NewHead(m), board_width, board_height, my_body, food)
           /\ ~check_opponent_bodies(NewHead(m), opponents, food)
           /\ Fatal(NewHead(m))

\* the scenario of C6: self head (0,5) on a board 11 wide, an opponent at
\* least as long as self with its head at h
AtWallWithOpponentAt(h) ==
    /\ board_width = 11
    /\ my_head = Cell(0, 5)
    /\ \E o \in 1..Len(opponents) :
           /\ Len(opponents[o].body) >= my_length
           /\ opponents[o].head = h

UpIsMarkedFatal ==
    ~validate_move_against_opponents(Cell(0, 6), my_length, opponents,
                                     board_width, board_height)

\* C6 as claimed: with the opponent's head at (1,5), "up" (to (0,6)) is marked
\* fatal and is not the move returned.
C6_AsClaimed ==
    (pc = "done" /\ AtWallWithOpponentAt(Cell(1, 5))) =>
        /\ UpIsMarkedFatal
        /\ ret.move # "up"

\* C6 amended: on the 11 x 11 board with self head (0,5), "up" (to (0,6)) is
\* marked fatal and is not the move returned when an opponent at least as long
\* as self has its head one step from (0,6), at (1,6) or (0,7); an opponent
\* with head (1,5) does not make "up" fatal: when every opponent has its head
\* there, "up" passes the threat check.
C6_UpFatalWhenOpponentNextToTarget ==
    /\ (pc = "done" /\ board_height = 11
          /\ (AtWallWithOpponentAt(Cell(1, 6)) \/ AtWallWithOpponentAt(Cell(0, 7)))) =>
           /\ UpIsMarkedFatal
           /\ ret.move # "up"
    /\ (AtWallWithOpponentAt(Cell(1, 5))
          /\ \A o \in 1..Len(opponents) : opponents[o].head = Cell(1, 5)) =>
           ~UpIsMarkedFatal

\* move() has returned with an equally long opponent's head at (1,6), and
\* "up" would otherwise have been acceptable
C6_Witness ==
    /\ pc = "done"
    /\ board_height = 11
    /\ AtWallWithOpponentAt(Cell(1, 6))
    /\ \E o \in 1..Len(opponents) : Len(opponents[o].body) = my_length
    /\ is_basic_safe(Cell(0, 6), board_width, board_height, my_body, food)
    /\ ~check_opponent_bodies(Cell(0, 6), opponents, food)
    /\ ret.move \in {"down", "right"}

\* the scenario of C7
FoodRunScenario ==
    /\ board_width = 11 /\ board_height = 11
    /\ my_body = <<Cell(5, 5), Cell(5, 4), Cell(5, 3)>>
    /\ my_health = 50
    /\ food = <<Cell(5, 8)>>
    /\ Len(opponents) = 0

\* C7: in the scenario (11 x 11, self (5,5),(5,4),(5,3), food (5,8), no
\* opponents, health 50) "up" strictly reduces the Manhattan distance to the
\* food and is the move returned.
C7_UpTowardsFood ==
    FoodRunScenario =>
        /\ get_distance(NewHead("up"), food[1]) < get_distance(my_head, food[1])
        /\ pc = "done" => ret.move = "up"

C7_Witness ==
    /\ FoodRunScenario
    /\ pc = "done"
    /\ ret.move = "up"
    /\ Scored = {"up", "left", "right"}

----------------------------------------------------------------------------
(* The threat check applied to a candidate cell *)

\* of the straight bodies with the same head and length, the first in the
\* order east, west, north, south (rank 1..4 of the direction of the body)
Rank(b) ==
    IF Len(b) = 1 THEN 1
    ELSE CASE b[2].x > b[1].x -> 1
           [] b[2].x < b[1].x -> 2
           [] b[2].x = b[1].x /\ b[2].y > b[1].y -> 3
           [] OTHER -> 4

\* one body for every head and every length lo..hi for which a straight body
\* fits the board
HeadBodies(lo, hi, w, h) ==
    {b \in StraightBodies(lo, hi, w, h) :
        \A q \in StraightBodies(Len(b), Len(b), w, h) :
            q[1] = b[1] => Rank(b) <= Rank(q)}

\* the lists of at most two opponents, the first from set A, the second from B
OpponentLists(A, B) ==
    {<<>>} \cup {<<Snake("a", a, 60)>> : a \in A}
           \cup {<<Snake("a", a, 60), Snake("b", b, 60)>> : a \in A, b \in B}

\* no cell holds segments of two of the snakes
Apart(snakes) ==
    \A i \in 1..Len(snakes), j \in 1..Len(snakes) :
        i # j => Range(snakes[i].body) \cap Range(snakes[j].body) = {}

\* the state a run that applies one function starts in
Call(b, me, at) ==
    /\ board = b
    /\ you = me
    /\ pc = at
    /\ move_scores = NoScores
    /\ chosen_move = ""
    /\ next_move = 1
    /\ calls = 0
    /\ ret = [move |-> ""]

\* self of two segments in the corner, up to two opponents of one to three
\* segments with their heads anywhere
InitThreat ==
    \E opps \in OpponentLists(HeadBodies(1, 3, BoardSize, BoardSize),
                              HeadBodies(1, 3, BoardSize, BoardSize)) :
        LET me == Snake("me", <<Cell(0, 0), Cell(1, 0)>>, 60)
        IN  /\ Apart(<<me>> \o opps)
            /\ Call([width |-> BoardSize, height |-> BoardSize, food |-> <<>>,
                     snakes |-> <<me>> \o opps], me, "threat")

\* validate_move_against_opponents applied to a cell of the board or of the
\* ring around it
Validate ==
    /\ pc = "threat"
    /\ \E cx \in -1..board_width, cy \in -1..board_height :
           ret' = [new_head |-> Cell(cx, cy),
                   safe |-> validate_move_against_opponents(Cell(cx, cy), my_length,
                                opponents, board_width, board_height)]
    /\ pc' = "validated"
    /\ UNCHANGED <<board, you, move_scores, chosen_move, next_move, calls>>

\* evaluate_head_to_head applied to the same cell
HeadToHead ==
    /\ pc = "validated"
    /\ ret' = [new_head |-> ret.new_head,
               safe |-> ret.safe,
               head_score |-> evaluate_head_to_head(ret.new_head, my_length, opponents,
                                                    board_width, board_height)]
    /\ pc' = "threat_done"
    /\ UNCHANGED <<board, you, move_scores, chosen_move, next_move, calls>>

NextThreat == Validate \/ HeadToHead

SpecThreat == InitThreat /\ [][NextThreat]_vars

\* C4: validate_move_against_opponents returns False for a cell exactly when
\* some opponent at least as long as self has the cell among the in-bounds
\* one-step neighbours of its head (so never when every opponent is strictly
\* shorter), and exactly when evaluate_head_to_head returns -1000.
C4_FatalIffLongerOpponentAdjacent ==
    /\ pc \in {"validated", "threat_done"} =>
           /\ ~ret.safe <=> Fatal(ret.new_head)
           /\ (\A o \in 1..Len(opponents) : Len(opponents[o].body) < my_length)
                  => ret.safe
    /\ pc = "threat_done" => (~ret.safe <=> ret.head_score = -1000)

\* both functions were applied to a cell next to the head of a shorter first
\* opponent and of an equally long second one
C4_Witness ==
    /\ pc = "threat_done"
    /\ Len(opponents) = 2
    /\ Len(opponents[1].body) < my_length
    /\ Adjacent(ret.new_head, opponents[1].head)
    /\ Len(opponents[2].body) = my_length
    /\ Adjacent(ret.new_head, opponents[2].head)
    /\ ~ret.safe
    /\ ret.head_score = -1000

----------------------------------------------------------------------------
(* evaluate_food_seeking applied to the four candidate heads *)

\* food lists of at most two different cells
FoodUpTo2(w, h) ==
    {<<>>} \cup {<<c>> : c \in Cells(w, h)}
           \cup {f \in {<<c, d>> : c \in Cells(w, h), d \in Cells(w, h)} :
                    f[1] # f[2]}

\* a board two rows high: self of two segments with its head anywhere, up to
\* two opponents (the first of one or two segments, the second of two) with
\* their heads anywhere, up to two foods; no two snakes overlap and no food
\* lies under a snake
InitFood ==
    \E body \in HeadBodies(2, 2, BoardSize + 1, 2),
       opps \in OpponentLists(HeadBodies(1, 2, BoardSize + 1, 2),
                              HeadBodies(2, 2, BoardSize + 1, 2)),
       f \in FoodUpTo2(BoardSize + 1, 2) :
        LET me == Snake("me", body, 60)
        IN  /\ Apart(<<me>> \o opps)
            /\ \A s \in Range(<<me>> \o opps) : Range(f) \cap Range(s.body) = {}
            /\ Call([width |-> BoardSize + 1, height |-> 2, food |-> f,
                     snakes |-> <<me>> \o opps], me, "food")

FoodSeeking ==
    /\ pc = "food"
    /\ \E m \in Moves :
           ret' = [new_head |-> NewHead(m),
                   score |-> evaluate_food_seeking(NewHead(m), my_head, food,
                                                   opponents, my_length)]
    /\ pc' = "food_done"
    /\ UNCHANGED <<board, you, move_scores, chosen_move, next_move, calls>>

NextFood == FoodSeeking

SpecFood == InitFood /\ [][NextFood]_vars

\* the food evaluate_food_seeking takes as nearest: the first in list order of
\* those at the least distance from the current head
TheNearestFood ==
    LET least == CHOOSE d \in {get_distance(my_head, food[k]) : k \in 1..Len(food)} :
                     \A k \in 1..Len(food) : d <= get_distance(my_head, food[k])
        first == CHOOSE k \in 1..Len(food) :
                     /\ get_distance(my_head, food[k]) = least
                     /\ \A j \in 1..(k - 1) : get_distance(my_head, food[j]) # least
    IN  food[first]

\* the candidate is strictly closer to that food than the current head
StrictlyCloser(c) ==
    get_distance(c, TheNearestFood) < get_distance(my_head, TheNearestFood)

\* the opponents whose head is strictly closer to that food than candidate c
CloserOpponents(c) ==
    {o \in 1..Len(opponents) :
        get_distance(opponents[o].head, TheNearestFood) < get_distance(c, TheNearestFood)}

\* C8 as claimed: evaluate_food_seeking is 0 when the food list is empty, and
\* strictly positive whenever the candidate is strictly closer to the nearest
\* food than the current head, whatever the opponents.
C8_AsClaimed ==
    pc = "food_done" =>
        /\ Len(food) = 0 => ret.score = 0
        /\ (Len(food) > 0 /\ StrictlyCloser(ret.new_head)) => ret.score > 0

\* C8 amended: evaluate_food_seeking is 0 when the food list is empty; when the
\* candidate is strictly closer than the current head to the nearest food (the
\* first food in list order at the least distance from the current head), the
\* result is at least 25 minus 20 for every opponent at least as long as self
\* and 5 for every shorter one whose head is strictly closer to that food than
\* the candidate; so it is strictly positive when at most one opponent is that
\* close.
C8_PositiveUnlessOutnumbered ==
    pc = "food_done" =>
        /\ Len(food) = 0 => ret.score = 0
        /\ (Len(food) > 0 /\ StrictlyCloser(ret.new_head)) =>
               LET close == CloserOpponents(ret.new_head)
                   big == {o \in close : Len(opponents[o].body) >= my_length}
               IN  /\ ret.score >= 25 - 20 * Cardinality(big)
                                      - 5 * Cardinality(close \ big)
                   /\ Cardinality(close) <= 1 => ret.score > 0

\* applied to a candidate strictly closer to the food, with exactly one
\* opponent, as long as self, closer still
C8_Witness ==
    /\ pc = "food_done"
    /\ Len(food) > 0
    /\ StrictlyCloser(ret.new_head)
    /\ Cardinality(CloserOpponents(ret.new_head)) = 1
    /\ \E o \in CloserOpponents(ret.new_head) : Len(opponents[o].body) >= my_length
    /\ Len(opponents) = 2
    /\ ret.score > 0

----------------------------------------------------------------------------
(* The three flood fills applied to the same snapshot and start cell *)

\* the fills are also run with every depth bound 0..MaxDepth + 1
MaxDepth == 7

\* every body of two to MaxLen - 1 segments, no opponent or one of two
\* segments clear of it
InitFlood ==
    \E body \in PathsUpTo(MaxLen - 1, BoardSize, BoardSize),
       opps \in OpponentLists(HeadBodies(2, 2, BoardSize, BoardSize), {}) :
        LET me == Snake("me", body, 60)
        IN  /\ Len(body) >= 2
            /\ Apart(<<me>> \o opps)
            /\ Call([width |-> BoardSize, height |-> BoardSize, food |-> <<>>,
                     snakes |-> <<me>> \o opps], me, "flood")

\* evaluate_space from a candidate head that passed is_basic_safe
EvaluateSpace ==
    /\ pc = "flood"
    /\ \E m \in Moves :
           /\ is_basic_safe(NewHead(m), board_width, board_height, my_body, food)
           /\ ret' = [start |-> NewHead(m),
                      space |-> evaluate_space(NewHead(m), my_body, opponents,
                                               board_width, board_height)]
    /\ pc' = "flood4"
    /\ UNCHANGED <<board, you, move_scores, chosen_move, next_move, calls>>

\* count_reachable_space from the same cell, no opponent left out
CountReachableSpace ==
    /\ pc = "flood4"
    /\ ret' = [start |-> ret.start, space |-> ret.space,
               reachable |-> count_reachable_space(ret.start, my_body, opponents,
                                                   board_width, board_height, 0)]
    /\ pc' = "flood6"
    /\ UNCHANGED <<board, you, move_scores, chosen_move, next_move, calls>>

\* the fill of evaluate_space_advanced from the same cell
EvaluateSpaceAdvanced ==
    /\ pc = "flood6"
    /\ ret' = [start |-> ret.start, space |-> ret.space, reachable |-> ret.reachable,
               advanced |-> Cardinality(AdvancedFill(ret.start, my_body, opponents,
                                                     board_width, board_height))]
    /\ pc' = "flood7"
    /\ UNCHANGED <<board, you, move_scores, chosen_move, next_move, calls>>

\* the number of cells the loop counts under depth bound d
Accessible(start, d) ==
    Cardinality(FloodFill(start, OccupiedCells(my_body, opponents),
                          board_width, board_height, d))

\* the loop run once with every depth bound, and evaluate_space run again
SweepDepth ==
    /\ pc = "flood7"
    /\ ret' = [start |-> ret.start, space |-> ret.space, reachable |-> ret.reachable,
               advanced |-> ret.advanced,
               accessible |-> [d \in 0..(MaxDepth + 1) |-> Accessible(ret.start, d)],
               again |-> evaluate_space(ret.start, my_body, opponents,
                                        board_width, board_height)]
    /\ pc' = "flood_done"
    /\ UNCHANGED <<board, you, move_scores, chosen_move, next_move, calls>>

NextFlood == EvaluateSpace \/ CountReachableSpace \/ EvaluateSpaceAdvanced \/ SweepDepth

SpecFlood == InitFlood /\ [][NextFlood]_vars

\* C9: on one snapshot and start cell the count of the breadth-first fill
\* never decreases when the depth bound grows by one; evaluate_space (bound
\* 4) counts at most what count_reachable_space (bound 6) counts, which is at
\* most what evaluate_space_advanced (bound 7) counts; a second run on the
\* same input returns the same count.
C9_CountGrowsWithDepth ==
    pc = "flood_done" =>
        /\ \A d \in 0..MaxDepth : ret.accessible[d] <= ret.accessible[d + 1]
        /\ ret.space <= 2 * ret.reachable
        /\ ret.reachable <= ret.advanced
        /\ ret.again = ret.space

\* the three fills ran on a snapshot where each deeper bound reaches more
C9_Witness ==
    /\ pc = "flood_done"
    /\ ret.space < 2 * ret.reachable
    /\ ret.reachable < ret.advanced
    /\ ret.accessible[0] = 0
    /\ ret.accessible[1] = 1

----------------------------------------------------------------------------
(* determine_strategy and the strategy branch of evaluate_move applied to the
   same snapshot *)

\* health values on both sides of every threshold of the two chains
HealthLevels == {14, 15, 19, 20, 21, 50, 51}

\* every snake straight on a row of its own: self of one to MaxLen segments,
\* up to two opponents of one to MaxLen + 2 segments
InitStrategy ==
    \E n \in 1..MaxLen, health \in HealthLevels,
       opps \in OpponentLists(
           {Straight(Cell(0, 1), <<1, 0>>, k) : k \in 1..(MaxLen + 2)},
           {Straight(Cell(0, 2), <<1, 0>>, k) : k \in 1..(MaxLen + 2)}) :
        LET me == Snake("me", Straight(Cell(0, 0), <<1, 0>>, n), health)
        IN  Call([width |-> MaxLen + 2, height |-> 3, food |-> <<>>,
                  snakes |-> <<me>> \o opps], me, "strategy")

DetermineStrategy ==
    /\ pc = "strategy"
    /\ ret' = [label |-> determine_strategy(my_health, my_length, opponents, food)]
    /\ pc' = "labelled"
    /\ UNCHANGED <<board, you, move_scores, chosen_move, next_move, calls>>

EvaluateMoveBranch ==
    /\ pc = "labelled"
    /\ ret' = [label |-> ret.label,
               branch |-> StrategyBranch(my_health, my_length, opponents)]
    /\ pc' = "strategy_done"
    /\ UNCHANGED <<board, you, move_scores, chosen_move, next_move, calls>>

NextStrategy == DetermineStrategy \/ EvaluateMoveBranch

SpecStrategy == InitStrategy /\ [][NextStrategy]_vars

\* the lengths of the opponents of the snapshot
OpponentLengths == {Len(opponents[o].body) : o \in 1..Len(opponents)}

\* the first matching rule of the precedence list, for at least one opponent
FirstMatchingRule ==
    IF my_health < 15 THEN "Critical"
    ELSE IF \E l \in OpponentLengths :
                (\A k \in OpponentLengths : l >= k) /\ l - my_length >= 2
         THEN "ClosingGap"
    ELSE IF /\ \E l \in OpponentLengths :
                   (\A k \in OpponentLengths : l <= k) /\ my_length - l >= 2
            /\ my_health > 50
         THEN "Overgrown"
    ELSE IF my_health > 20 /\ Len(opponents) >= 2 THEN "Conservative"
    ELSE IF \A l \in OpponentLengths : l > my_length THEN "Underdog"
    ELSE IF my_health >= 20 /\ \E l \in OpponentLengths : l < my_length
         THEN "Competitive"
    ELSE "Survival"

\* the mode a label of determine_strategy stands for
ModeOfLabel(label) ==
    CASE label = "CRITICAL - FOOD NOW" -> "Critical"
      [] label = "SOLO - DOMINATING" -> "Dominant"
      [] label = "CLOSING GAP" -> "ClosingGap"
      [] label = "TOO LONG - MAINTAIN" -> "Overgrown"
      [] label = "CONSERVATIVE - SURVIVAL" -> "Conservative"
      [] label \in {"UNDERDOG - GROWING", "UNDERDOG - SURVIVAL"} -> "Underdog"
      [] label = "COMPETITIVE MODE" -> "Competitive"
      [] label \in {"SURVIVAL MODE", "EFFICIENT PLAY"} -> "Survival"

\* the mode an arm of evaluate_move stands for
ModeOfBranch(branch) ==
    CASE branch = "CRITICAL" -> "Critical"
      [] branch = "CLOSE THE GAP" -> "ClosingGap"
      [] branch = "TOO DOMINANT" -> "Overgrown"
      [] branch = "CONSERVATIVE MODE" -> "Conservative"
      [] branch = "UNDERDOG" -> "Underdog"
      [] branch = "COMPETITIVE" -> "Competitive"
      [] branch = "SURVIVAL" -> "Survival"

\* C10: with at least one opponent, the label of determine_strategy and the
\* arm of evaluate_move both stand for the mode of the first matching rule in
\* the order Critical, ClosingGap, Overgrown, Conservative, Underdog,
\* Competitive, Survival.
C10_FirstMatchingRuleWins ==
    (pc = "strategy_done" /\ Len(opponents) >= 1) =>
        /\ ModeOfLabel(ret.label) = FirstMatchingRule
        /\ ModeOfBranch(ret.branch) = FirstMatchingRule

\* both functions ran on a crowded board where a size-gap rule and the
\* Conservative rule match, and the size-gap rule won
C10_Witness ==
    /\ pc = "strategy_done"
    /\ Len(opponents) = 2
    /\ my_health > 50
    /\ \E l \in OpponentLengths : my_length - l >= 2
    /\ \A l \in OpponentLengths : l - my_length < 2
    /\ ModeOfLabel(ret.label) = "Overgrown"
    /\ ModeOfBranch(ret.branch) = "Overgrown"

----------------------------------------------------------------------------
(* determine_strategy and the strategy term of evaluate_move applied to a
   snapshot without opponents *)

\* alone on the board: every body of up to three segments, no food or one
\* food on a free cell, health on both sides of every threshold
InitAlone ==
    \E body \in PathsUpTo(3, BoardSize, BoardSize), health \in HealthLevels,
       f \in {<<>>} \cup {<<c>> : c \in Cells(BoardSize, BoardSize)} :
        LET me == Snake("me", body, health)
        IN  /\ Range(f) \cap Range(body) = {}
            /\ Call([width |-> BoardSize, height |-> BoardSize, food |-> f,
                     snakes |-> <<me>>], me, "strategy")

\* "Factor 3" and "Factor 4" of evaluate_move for one candidate head, next to
\* the sub-scores the arms of Factor 4 draw on
StrategyTerm ==
    /\ pc = "strategy_done"
    /\ \E m \in Moves :
           ret' = [label |-> ret.label, branch |-> ret.branch,
                   new_head |-> NewHead(m),
                   strategy |-> StrategyScore(NewHead(m), my_head, my_length, my_health,
                                    opponents, food, board_width, board_height),
                   head_score |-> evaluate_head_to_head(NewHead(m), my_length,
                                    opponents, board_width, board_height),
                   food_seeking |-> evaluate_food_seeking(NewHead(m), my_head, food,
                                    opponents, my_length),
                   hunting |-> evaluate_hunting(NewHead(m), my_length, opponents,
                                    board_width, board_height),
                   blocking |-> evaluate_blocking(NewHead(m), my_length, my_health,
                                    opponents, board_width, board_height),
                   avoidance |-> evaluate_underdog_avoidance(NewHead(m), my_length,
                                    opponents, board_width, board_height)]
    /\ pc' = "strategy_scored"
    /\ UNCHANGED <<board, you, move_scores, chosen_move, next_move, calls>>

NextAlone == DetermineStrategy \/ EvaluateMoveBranch \/ StrategyTerm

SpecAlone == InitAlone /\ [][NextAlone]_vars

\* the strategy term is a multiple of the food-seeking score and nothing
\* else: hunting, blocking, avoidance and head-to-head are all zero
OnlyFoodSeeking ==
    /\ ret.strategy = (IF my_health < 15 THEN 90 ELSE 40) * ret.food_seeking
    /\ ret.head_score = 0
    /\ ret.hunting = 0
    /\ ret.blocking = 0
    /\ ret.avoidance = 0

\* C11 as claimed: with no opponents determine_strategy reports the
\* solo/dominant mode for every health value, and the strategy term of
\* evaluate_move is food-seeking only.
C11_AsClaimed ==
    (pc = "strategy_scored" /\ Len(opponents) = 0) =>
        /\ ModeOfLabel(ret.label) = "Dominant"
        /\ OnlyFoodSeeking

\* C11 amended: with no opponents determine_strategy reports the
\* solo/dominant mode when health is at least 15 and the critical mode when
\* health is below 15; in both cases the strategy term of evaluate_move is
\* food-seeking only (weight 4.5 below health 15, through the critical arm;
\* weight 2.0 otherwise, through the final arm), with no hunting, blocking,
\* avoidance or head-to-head contribution.
C11_DominantUnlessCritical ==
    (pc = "strategy_scored" /\ Len(opponents) = 0) =>
        /\ ModeOfLabel(ret.label) = (IF my_health < 15 THEN "Critical" ELSE "Dominant")
        /\ ret.branch = (IF my_health < 15 THEN "CRITICAL" ELSE "SURVIVAL")
        /\ OnlyFoodSeeking

\* both functions ran without opponents at health below 15 for a candidate
\* that approaches the food
C11_Witness ==
    /\ pc = "strategy_scored"
    /\ Len(opponents) = 0
    /\ my_health < 15
    /\ ret.label = "CRITICAL - FOOD NOW"
    /\ ret.food_seeking > 0
    /\ ret.strategy = 90 * ret.food_seeking

----------------------------------------------------------------------------
(* More properties of move() *)

\* the scores move() computes, as a function of the snapshot alone
SnapshotScores ==
    [m \in {n \in Moves : IsScored(NewHead(n))} |->
        evaluate_move(m, NewHead(m), my_head, my_body, my_length, my_health,
                      opponents, food, board_width, board_height)]

\* C12: when something was scored, the move returned has the largest score of
\* the scored moves and is the earliest of those with that score in the order
\* up, down, left, right; the scores and the move are determined by the
\* snapshot (board, you) alone.
C12_ReturnsFirstMaximum ==
    (pc = "done" /\ Scored # {}) =>
        /\ ret.move \in Scored
        /\ \A n \in Scored : move_scores[n] <= move_scores[ret.move]
        /\ \A n \in Scored :
               move_scores[n] = move_scores[ret.move]
                   => MoveIndex(ret.move) <= MoveIndex(n)
        /\ move_scores = SnapshotScores
        /\ ret.move = MaxKey(SnapshotScores)

\* move() has returned the earlier of two moves tied for the largest score,
\* ahead of a third with a smaller score
C12_Witness ==
    /\ pc = "done"
    /\ Cardinality(Scored) >= 3
    /\ ret.move \in Scored
    /\ \E n \in Scored : /\ n # ret.move
                         /\ move_scores[n] = move_scores[ret.move]
                         /\ MoveIndex(ret.move) < MoveIndex(n)
    /\ \E n \in Scored : move_scores[n] < move_scores[ret.move]
    /\ Len(opponents) > 0

----------------------------------------------------------------------------
(* evaluate_move applied to candidates the loop of move() would not score *)

\* self of two or three segments with its head anywhere, no opponent or one
\* of one to three segments clear of it, no food or one food on a free cell
InitScore ==
    \E body \in HeadBodies(2, 3, BoardSize, BoardSize),
       opps \in OpponentLists(HeadBodies(1, 3, BoardSize, BoardSize), {}),
       f \in {<<>>} \cup {<<c>> : c \in Cells(BoardSize, BoardSize)},
       health \in {10, 60} :
        LET me == Snake("me", body, health)
        IN  /\ Apart(<<me>> \o opps)
            /\ \A sn \in Range(<<me>> \o opps) : Range(f) \cap Range(sn.body) = {}
            /\ Call([width |-> BoardSize, height |-> BoardSize, food |-> f,
                     snakes |-> <<me>> \o opps], me, "score")

\* evaluate_move for a candidate that passes is_basic_safe, whatever the
\* other two tests of the loop say about it
EvaluateMove ==
    /\ pc = "score"
    /\ \E m \in Moves :
           /\ is_basic_safe(NewHead(m), board_width, board_height, my_body, food)
           /\ ret' = [move |-> m,
                      new_head |-> NewHead(m),
                      score |-> evaluate_move(m, NewHead(m), my_head, my_body,
                                    my_length, my_health, opponents, food,
                                    board_width, board_height),
                      flagged |-> ~validate_move_against_opponents(NewHead(m),
                                    my_length, opponents, board_width, board_height),
                      on_body |-> check_opponent_bodies(NewHead(m), opponents, food)]
    /\ pc' = "scored"
    /\ UNCHANGED <<board, you, move_scores, chosen_move, next_move, calls>>

NextScore == EvaluateMove

SpecScore == InitScore /\ [][NextScore]_vars

\* the sentinel -1000 in the units of evaluate_move
Sentinel == -1000 * 20 * board_width * board_height

\* C13 as claimed: for a candidate the threat check flags fatal, evaluate_move
\* returns exactly the sentinel -1000.
C13_AsClaimed ==
    (pc = "scored" /\ ret.flagged) => ret.score = Sentinel

----------------------------------------------------------------------------
(* evaluate_space_advanced applied to two candidate heads of one snapshot *)

\* a board one larger than BoardSize: self of three segments, no opponent or
\* one of two segments clear of it
InitRank ==
    \E body \in Paths(3, BoardSize + 1, BoardSize + 1),
       opps \in OpponentLists(HeadBodies(2, 2, BoardSize + 1, BoardSize + 1), {}) :
        LET me == Snake("me", body, 60)
        IN  /\ Apart(<<me>> \o opps)
            /\ Call([width |-> BoardSize + 1, height |-> BoardSize + 1,
                     food |-> <<>>, snakes |-> <<me>> \o opps], me, "rank")

\* what evaluate_space_advanced computes for candidate head c: its score
\* (doubled), open_directions, immediate_space and extended_space
SpaceOf(c) ==
    LET counted == AdvancedFill(c, my_body, opponents, board_width, board_height)
    IN  [head |-> c,
         score |-> evaluate_space_advanced(c, my_body, opponents,
                                           board_width, board_height),
         open |-> OpenDirections(c, my_body, opponents, board_width, board_height),
         immediate |-> Cardinality({e \in counted : e[2] < 3}),
         extended |-> Cardinality({e \in counted : ~(e[2] < 3)})]

\* evaluate_space_advanced for the heads of two different moves
RankSpace ==
    /\ pc = "rank"
    /\ \E ma \in Moves, mb \in Moves :
           /\ ma # mb
           /\ InBounds(NewHead(ma), board_width, board_height)
           /\ InBounds(NewHead(mb), board_width, board_height)
           /\ ret' = [a |-> SpaceOf(NewHead(ma)), b |-> SpaceOf(NewHead(mb))]
    /\ pc' = "ranked"
    /\ UNCHANGED <<board, you, move_scores, chosen_move, next_move, calls>>

NextRank == RankSpace

SpecRank == InitRank /\ [][NextRank]_vars

\* candidate a is cramped (at most 1 open direction, at most 2 cells counted
\* at depth below 3), candidate b is roomy (at least 3 open directions, at
\* least 10 cells counted)
CrampedAgainstRoomy ==
    /\ pc = "ranked"
    /\ ret.a.open <= 1
    /\ ret.a.immediate <= 2
    /\ ret.b.open >= 3
    /\ ret.b.immediate + ret.b.extended >= 10

\* C14: on one board, a candidate with at least 3 open directions and at
\* least 10 reachable cells gets a strictly greater evaluate_space_advanced
\* score than a candidate with at most 1 open direction and at most 2
\* reachable cells within depth 3.
C14_RoomyOutranksCramped ==
    CrampedAgainstRoomy => ret.b.score > ret.a.score

\* both were evaluated and the cramped candidate is itself a free cell with
\* one exit
C14_Witness ==
    /\ CrampedAgainstRoomy
    /\ ret.a.open = 1
    /\ ret.a.immediate = 2
    /\ ret.b.score > ret.a.score

----------------------------------------------------------------------------
(* is_basic_safe, both directions *)

\* the last segment of self
MyTail == my_body[Len(my_body)]

\* the conditions under which a head cell c is acceptable
Acceptable(c) ==
    /\ c.x \in 0..(board_width - 1)
    /\ c.y \in 0..(board_height - 1)
    /\ Len(my_body) >= 2 => c # my_body[2]
    /\ c \notin Range(AllButLast(my_body))
    /\ c = MyTail => c \notin Range(food)

\* C15: is_basic_safe accepts a move exactly when its head cell is in bounds,
\* is not the neck, equals no segment other than the last and, if it equals
\* the last, is not a food cell.  In particular a move onto the tail (a tail
\* that is not the neck) is accepted exactly when the second-to-last segment
\* does not lie on the tail too and the tail cell holds no food; a move onto
\* a tail that is the neck (length 2) is rejected.
C15_BasicSafeExactly ==
    \A m \in Moves :
        /\ is_basic_safe(NewHead(m), board_width, board_height, my_body, food)
               <=> Acceptable(NewHead(m))
        /\ (NewHead(m) = MyTail /\ Len(my_body) >= 3) =>
               (is_basic_safe(NewHead(m), board_width, board_height, my_body, food)
                   <=> (my_body[Len(my_body) - 1] # MyTail /\ MyTail \notin Range(food)))
        /\ (NewHead(m) = MyTail /\ Len(my_body) = 2) =>
               ~is_basic_safe(NewHead(m), board_width, board_height, my_body, food)

\* move() has returned on a snapshot where the move onto the tail was turned
\* down because food lies on the tail cell, the tail not being doubled
C15_Witness ==
    /\ pc = "done"
    /\ Len(my_body) >= 4
    /\ my_body[Len(my_body) - 1] # MyTail
    /\ MyTail \in Range(food)
    /\ \E m \in Moves :
           /\ NewHead(m) = MyTail
           /\ ~is_basic_safe(NewHead(m), board_width, board_height, my_body, food)
           /\ m \notin Scored

----------------------------------------------------------------------------
(* The occupancy evaluate_space_advanced works with *)

\* self of two or three segments, one opponent of two or three segments clear
\* of it, no food or one food on a free cell
InitOccupancy ==
    \E body \in Paths(2, BoardSize, BoardSize) \cup Paths(3, BoardSize, BoardSize),
       opp \in HeadBodies(2, 3, BoardSize, BoardSize),
       f \in {<<>>} \cup {<<c>> : c \in Cells(BoardSize, BoardSize)} :
        LET me == Snake("me", body, 60)
            other == Snake("a", opp, 60)
        IN  /\ Apart(<<me, other>>)
            /\ Range(f) \cap (Range(body) \cup Range(opp)) = {}
            /\ Call([width |-> BoardSize, height |-> BoardSize, food |-> f,
                     snakes |-> <<me, other>>], me, "occupancy")

\* the cells evaluate_space_advanced treats as occupied: those from which its
\* fill counts nothing, and those its open-direction loop skips
TreatedAsOccupied ==
    {c \in Cells(board_width, board_height) :
        /\ AdvancedFill(c, my_body, opponents, board_width, board_height) = {}
        /\ c \in OccupiedCells(my_body, opponents)}

\* evaluate_space_advanced for a candidate that passes is_basic_safe
SpaceAdvanced ==
    /\ pc = "occupancy"
    /\ \E m \in Moves :
           /\ is_basic_safe(NewHead(m), board_width, board_height, my_body, food)
           /\ ret' = [space |-> SpaceOf(NewHead(m)),
                      occupied |-> TreatedAsOccupied,
                      on_body |-> check_opponent_bodies(NewHead(m), opponents, food)]
    /\ pc' = "occupancy_done"
    /\ UNCHANGED <<board, you, move_scores, chosen_move, next_move, calls>>

NextOccupancy == SpaceAdvanced

SpecOccupancy == InitOccupancy /\ [][NextOccupancy]_vars

\* the occupancy of the tail-vacate rule for candidate head c: every segment
\* but the last of every snake, and the last one too of a snake about to eat
\* (an opponent whose head is one step from food, as in
\* check_opponent_bodies; self when c is a food cell, as in is_basic_safe)
TailRuleOccupied(c) ==
    Range(AllButLast(my_body))
        \cup (IF IsEating(c, food) THEN Range(my_body) ELSE {})
        \cup UNION {IF IsAboutToEat(opponents[o].head, food)
                    THEN Range(opponents[o].body)
                    ELSE Range(AllButLast(opponents[o].body)) : o \in 1..Len(opponents)}

\* C16 as claimed: the cells evaluate_space_advanced treats as occupied are
\* those of the tail-vacate rule, the last segment of a snake about to eat
\* included.
C16_AsClaimed ==
    pc = "occupancy_done" => ret.occupied = TailRuleOccupied(ret.space.head)

----------------------------------------------------------------------------
(* The while loop of evaluate_space_advanced, one iteration at a time *)

\* the four appends of the loop body, in the order of the source
SourceOrder == << <<1, 0>>, <<-1, 0>>, <<0, 1>>, <<0, -1>> >>

\* the same four appends in every order
EnqueueOrders == {o \in [1..4 -> Range(SourceOrder)] : Range(o) = Range(SourceOrder)}

\* mutant: depth 3 still counts as immediate
IsImmediate_Inclusive(depth) == depth <= 3

\* "if depth < max_immediate"
IsImmediate(depth) == depth < 3

\* One iteration on the locals of evaluate_space_advanced: queue, visited,
\* immediate_space, extended_space.  near and far record which cells the two
\* counters were incremented for; order is the order of the four appends.
AdvancedStep(st) ==
    LET entry == Head(st.queue)
        c == entry[1]
        depth == entry[2]
        rest == Tail(st.queue)
    IN  IF \/ depth >= 7
           \/ c \in st.visited
           \/ ~InBounds(c, board_width, board_height)
           \/ c \in OccupiedCells(my_body, opponents)
        THEN [st EXCEPT !.queue = rest]
        ELSE [st EXCEPT
                 !.queue = rest \o [i \in 1..4 |->
                               <<Cell(c.x + st.order[i][1], c.y + st.order[i][2]),
                                 depth + 1>>],
                 !.visited = @ \cup {c},
                 !.immediate_space = IF IsImmediate(depth) THEN @ + 1 ELSE @,
                 !.extended_space = IF IsImmediate(depth) THEN @ ELSE @ + 1,
                 !.near = IF IsImmediate(depth) THEN @ \cup {c} ELSE @,
                 !.far = IF IsImmediate(depth) THEN @ ELSE @ \cup {c}]

\* self of three segments alone on the board
InitFill ==
    \E body \in Paths(3, BoardSize, BoardSize) :
        LET me == Snake("me", body, 60)
        IN  Call([width |-> BoardSize, height |-> BoardSize, food |-> <<>>,
                  snakes |-> <<me>>], me, "bfs_start")

\* the locals before the loop, for a candidate that passes is_basic_safe
FillStart ==
    /\ pc = "bfs_start"
    /\ \E m \in Moves, o \in EnqueueOrders :
           /\ is_basic_safe(NewHead(m), board_width, board_height, my_body, food)
           /\ ret' = [start |-> NewHead(m), order |-> o,
                      queue |-> << <<NewHead(m), 0>> >>, visited |-> {},
                      immediate_space |-> 0, extended_space |-> 0,
                      near |-> {}, far |-> {}]
    /\ pc' = "bfs"
    /\ UNCHANGED <<board, you, move_scores, chosen_move, next_move, calls>>

\* "while queue": one iteration; calls counts the iterations
FillStep ==
    /\ pc = "bfs"
    /\ Len(ret.queue) > 0
    /\ ret' = AdvancedStep(ret)
    /\ calls' = calls + 1
    /\ UNCHANGED <<board, you, pc, move_scores, chosen_move, next_move>>

\* the queue is empty: the loop is left
FillEnd ==
    /\ pc = "bfs"
    /\ Len(ret.queue) = 0
    /\ pc' = "bfs_done"
    /\ UNCHANGED <<board, you, move_scores, chosen_move, next_move, calls, ret>>

NextFill == FillStart \/ FillStep \/ FillEnd

SpecFill == InitFill /\ [][NextFill]_vars

\* the in-bounds cells no snake occupies
FreeCells == Cells(board_width, board_height) \ OccupiedCells(my_body, opponents)

\* the free cells that a path of at most k steps through free cells reaches
\* from start
RECURSIVE WithinSteps(_, _)
WithinSteps(k, start) ==
    IF k = 0 THEN {start} \cap FreeCells
    ELSE LET p == WithinSteps(k - 1, start)
         IN  p \cup {c \in FreeCells : \E q \in p : Adjacent(c, q)}

----------------------------------------------------------------------------
(* The returned move and the opponents' bodies *)

\* cell c holds a segment of opponent o that check_opponent_bodies is to
\* treat as occupied: any segment but the last, and the last one as well
\* when the opponent's head is one step from a food cell
OnOpponentBody(c, o) ==
    LET body == opponents[o].body
    IN  \/ \E i \in 1..(Len(body) - 1) : body[i] = c
        \/ /\ body[Len(body)] = c
           /\ \E f \in Range(food) :
                  Abs(opponents[o].head.x - f.x) + Abs(opponents[o].head.y - f.y) = 1

\* C18: whenever at least one candidate is scored, the head cell of the
\* returned move is on no segment of an opponent other than its last, nor on
\* the last segment of an opponent whose head is one step from food.
C18_ReturnedMoveOffOpponentBodies ==
    (pc = "done" /\ Scored # {}) =>
        \A o \in 1..Len(opponents) : ~OnOpponentBody(NewHead(ret.move), o)

\* a move is returned from a scored set while the tail of an opponent about
\* to eat lies next to the own head on a cell the basic check accepts
C18_Witness ==
    /\ pc = "done"
    /\ Scored # {}
    /\ \E o \in 1..Len(opponents), m \in Moves :
           LET body == opponents[o].body
           IN  /\ NewHead(m) = body[Len(body)]
               /\ Len(body) >= 2
               /\ body[Len(body) - 1] # body[Len(body)]
               /\ OnOpponentBody(NewHead(m), o)
               /\ is_basic_safe(NewHead(m), board_width, board_height, my_body, food)
               /\ validate_move_against_opponents(NewHead(m), my_length, opponents,
                                                  board_width, board_height)

----------------------------------------------------------------------------
(* The final safety check of move() after the filters of its loop *)

\* "is_safe_from_larger" of the final check, for move m
IsSafeFromLarger(m) ==
    validate_move_against_opponents(NewHead(m), my_length, opponents,
                                    board_width, board_height)

\* evaluate_move(m, ...) leaves by one of its two early "return -1000.0"
TakesEarlyReturn(m) ==
    \/ check_opponent_bodies(NewHead(m), opponents, food)
    \/ \E i \in 1..(Len(my_body) - 1) :
           NewHead(m).x = my_body[i].x /\ NewHead(m).y = my_body[i].y

\* C19: every candidate that reaches scoring in move() has passed
\* validate_move_against_opponents with the arguments of the final check, so
\* the final check on the chosen move succeeds and leaves the chosen move as
\* it is (neither the switch to an alternative nor the "anyway" arm is
\* taken); and evaluate_move, called from move(), takes neither of its early
\* returns for an opponent-body or self-body collision.
C19_FinalCheckAlwaysPasses ==
    /\ \A m \in Scored : IsSafeFromLarger(m) /\ ~TakesEarlyReturn(m)
    /\ pc = "final_check" =>
           /\ chosen_move \in Scored
           /\ IsSafeFromLarger(chosen_move)
           /\ FinalChoice(chosen_move) = chosen_move
    /\ (pc \in {"return", "done"} /\ Scored # {}) => chosen_move = MaxKey(move_scores)

\* the final check is reached with two candidates scored while the loop
\* turned away a candidate next to the head of an opponent at least as long,
\* and another that lies on an opponent's body
C19_Witness ==
    /\ pc = "final_check"
    /\ Cardinality(Scored) >= 2
    /\ \E m \in Moves \ Scored :
           /\ is_basic_safe(NewHead(m), board_width, board_height, my_body, food)
           /\ ~check_opponent_bodies(NewHead(m), opponents, food)
           /\ ~IsSafeFromLarger(m)
    /\ \E m \in Moves \ Scored :
           /\ is_basic_safe(NewHead(m), board_width, board_height, my_body, food)
           /\ TakesEarlyReturn(m)

----------------------------------------------------------------------------
(* count_reachable_space as evaluate_blocking calls it *)

\* self of two or three segments, one opponent of one to three segments or
\* that one and a second of one segment, all clear of each other
InitBlocking ==
    \E body \in HeadBodies(2, 3, BoardSize, BoardSize),
       opps \in OpponentLists(HeadBodies(1, 3, BoardSize, BoardSize),
                              HeadBodies(1, 1, BoardSize, BoardSize)),
       health \in {20, 60} :
        LET me == Snake("me", body, health)
        IN  /\ Len(opps) >= 1
            /\ Apart(<<me>> \o opps)
            /\ Call([width |-> BoardSize, height |-> BoardSize, food |-> <<>>,
                     snakes |-> <<me>> \o opps], me, "blocking")

\* "opponent_space" of evaluate_blocking for opponent o
OpponentSpace(o) ==
    count_reachable_space(opponents[o].head, opponents[o].body, opponents,
                          board_width, board_height, my_length)

\* evaluate_blocking for a candidate that passes is_basic_safe, with the
\* opponent_space it computes for each opponent
EvaluateBlocking ==
    /\ pc = "blocking"
    /\ \E m \in Moves :
           /\ is_basic_safe(NewHead(m), board_width, board_height, my_body, food)
           /\ ret' = [new_head |-> NewHead(m),
                      opponent_space |-> [o \in 1..Len(opponents) |-> OpponentSpace(o)],
                      blocking |-> evaluate_blocking(NewHead(m), my_length, my_health,
                                       opponents, board_width, board_height)]
    /\ pc' = "blocking_done"
    /\ UNCHANGED <<board, you, move_scores, chosen_move, next_move, calls>>

NextBlocking == EvaluateBlocking

SpecBlocking == InitBlocking /\ [][NextBlocking]_vars

====
